---- MODULE Spec2Model ----
(***************************************************************************)
(* ProcessChatlogs (src/preprocess_chatlogs.py): the regular expressions   *)
(* of __post_init__, the per-transcript loop of acquire_dialogue, and the  *)
(* filter find_chatlogs_without_client / return_chatlogs.                  *)
(*                                                                         *)
(* A Python str is a sequence of one-character strings.  A Python dict is  *)
(* a sequence of <<key, value>> pairs in insertion order.  Positions in a  *)
(* str are 1-based here; chat_index and sentence_index keep Python's       *)
(* 0-based values.                                                         *)
(***************************************************************************)
EXTENDS Integers, Sequences, FiniteSets, TLC

(***************************************************************************)
(* Character classes of Python's re on str patterns.                       *)
(***************************************************************************)
Digits == {"0", "1", "2", "3", "4", "5", "6", "7", "8", "9"}

Whitespace == {" ", "\t", "\n", "\r", "\f"}

Letters ==
    {"a", "b", "c", "d", "e", "f", "g", "h", "i", "j", "k", "l", "m",
     "n", "o", "p", "q", "r", "s", "t", "u", "v", "w", "x", "y", "z",
     "A", "B", "C", "D", "E", "F", "G", "H", "I", "J", "K", "L", "M",
     "N", "O", "P", "Q", "R", "S", "T", "U", "V", "W", "X", "Y", "Z"}

WordChars == Letters \cup Digits \cup {"_"}

\* Does character c match the class or literal cls?
\* "digit" is \d, "space" is \s, "word" is \w, "any" is . (no DOTALL flag);
\* any other cls is a literal character.
Matches(cls, c) ==
    CASE cls = "digit" -> c \in Digits
      [] cls = "space" -> c \in Whitespace
      [] cls = "word"  -> c \in WordChars
      [] cls = "any"   -> c # "\n"
      [] OTHER         -> c = cls

(***************************************************************************)
(* A pattern is a sequence of atoms; an atom is a class with a repetition  *)
(* range lo..hi (hi < 0: unbounded), greedy or lazy.  The class "end" is   *)
(* the zero-width assertion $ (no MULTILINE flag).                         *)
(***************************************************************************)
Atom(cls, lo, hi, lazy) == [cls |-> cls, lo |-> lo, hi |-> hi, lazy |-> lazy]

One(c) == Atom(c, 1, 1, FALSE)

Opt(c) == Atom(c, 0, 1, FALSE)

\* $ : at the end of the string, or just before a newline that ends it
AtEnd(s, pos) ==
    \/ pos = Len(s) + 1
    \/ pos = Len(s) /\ s[pos] = "\n"

Min(a, b) == IF a <= b THEN a ELSE b

Least(S) == CHOOSE x \in S : \A y \in S : x <= y

\* The number of consecutive characters of s from pos to last that match
\* cls.
RunTo(cls, s, pos, last) ==
    Least({i \in pos..(last + 1) :
              i = last + 1 \/ ~Matches(cls, s[i])}) - pos

\* The number of consecutive characters of s from pos on that match cls,
\* at most cap.
Run(cls, s, pos, cap) == RunTo(cls, s, pos, Min(Len(s), pos + cap - 1))

\* The repetition counts an atom can take at pos.
Counts(atom, s, pos) ==
    IF atom.cls = "end" THEN (IF AtEnd(s, pos) THEN {0} ELSE {})
    ELSE atom.lo..Run(atom.cls, s, pos,
                      IF atom.hi < 0 THEN Len(s) ELSE atom.hi)

\* Candidates are pairs <<n, result>>; a result <<>> is a failure.
Hits(cands) == {c \in cands : c[2] # <<>>}

\* The hit with the least (greatest) first component, <<>> when there is none.
LeastOf(hits) ==
    IF hits = {} THEN <<>>
    ELSE CHOOSE c \in hits : \A d \in hits : c[1] <= d[1]

GreatestOf(hits) ==
    IF hits = {} THEN <<>>
    ELSE CHOOSE c \in hits : \A d \in hits : d[1] <= c[1]

\* The boundaries of a match that starts an atom at pos and goes on as hit.
Extend(pos, hit) == IF hit = <<>> THEN <<>> ELSE <<pos>> \o hit[2]

(***************************************************************************)
(* Backtracking match of atoms k..Len(re) of re at position pos of s, with *)
(* the re module's preference (a greedy atom takes the longest repetition  *)
(* after which the rest matches, a lazy one the shortest).  The result is  *)
(* the sequence of the positions where atoms k, k+1, ... start, then the   *)
(* position after the match; <<>> when nothing matches.                    *)
(***************************************************************************)
RECURSIVE MatchSeq(_, _, _, _)
MatchSeq(re, k, s, pos) ==
    IF k > Len(re) THEN <<pos>>
    ELSE IF re[k].lazy
    THEN Extend(pos, LeastOf(Hits({<<n, MatchSeq(re, k + 1, s, pos + n)>> :
                                       n \in Counts(re[k], s, pos)})))
    ELSE Extend(pos, GreatestOf(Hits({<<n, MatchSeq(re, k + 1, s, pos + n)>> :
                                         n \in Counts(re[k], s, pos)})))

\* The match at pos of the first alternative of alts that matches there:
\* <<its number, its boundaries>>, <<>> when none does.
FirstAlt(alts, s, pos) ==
    LeastOf(Hits({<<a, MatchSeq(alts[a], 1, s, pos)>> : a \in 1..Len(alts)}))

\* the position after match m
MatchEnd(m) == m[2][Len(m[2])]

\* re.findall's scan: the non-overlapping matches of alts[1] | alts[2] | ...
\* in s from pos on, leftmost first.  None of the patterns below matches
\* the empty string, so the scan resumes where the match ended.
\* hits holds <<p, the match at p>> for every position p where one starts.
RECURSIVE Scan(_, _)
RECURSIVE Collect(_, _)
Scan(hits, pos) == Collect(hits, LeastOf({h \in hits : h[1] >= pos}))

\* hit is the leftmost of the remaining hits, <<>> when there is none
Collect(hits, hit) ==
    IF hit = <<>> THEN <<>>
    ELSE <<hit[2]>> \o Scan(hits, MatchEnd(hit[2]))

FindAll(alts, s, pos) ==
    Scan(Hits({<<p, FirstAlt(alts, s, p)>> : p \in pos..Len(s)}), pos)

\* The text of atoms i..j of match m of s (a capture group); '' for a
\* group of an alternative that did not take part in the match.
Group(s, m, a, i, j) ==
    IF m[1] = a THEN SubSeq(s, m[2][i], m[2][j + 1] - 1) ELSE <<>>

\* the group of atoms i..j of alternative a, for each match of found
Groups(s, found, a, i, j) ==
    [n \in 1..Len(found) |-> Group(s, found[n], a, i, j)]

(***************************************************************************)
(* __post_init__: the patterns.                                            *)
(***************************************************************************)
\* r'Agent\s(\w+)' ; group 1 is atom 7
regex_agent_name ==
    <<One("A"), One("g"), One("e"), One("n"), One("t"), One("space"),
      Atom("word", 1, -1, FALSE)>>

\* r'(.*?:\s)' ; group 1 is atoms 1..3
regex_client_name ==
    <<Atom("any", 0, -1, TRUE), One(":"), One("space")>>

\* r'\(\s\d{0,2}m?\(?d{0,2}s?\s?\d{1,2}s\s\)' ; no group.  The sixth atom is
\* the letter d, as written in the source.
regex_timestamps ==
    <<One("("), One("space"), Atom("digit", 0, 2, FALSE), Opt("m"),
      Opt("("), Atom("d", 0, 2, FALSE), Opt("s"), Opt("space"),
      Atom("digit", 1, 2, FALSE), One("s"), One("space"), One(")")>>

\* r'\d{0,2}s?\s?\d{1,2}s\s\)\s(.*?)\(\s|\s\)\s(.*$)' ; two alternatives,
\* group 1 is atom 9 of the first, group 2 is atom 4 of the second.
regex_with_last_response ==
    << <<Atom("digit", 0, 2, FALSE), Opt("s"), Opt("space"),
         Atom("digit", 1, 2, FALSE), One("s"), One("space"), One(")"),
         One("space"), Atom("any", 0, -1, TRUE), One("("), One("space")>>,
       <<One("space"), One(")"), One("space"), Atom("any", 0, -1, FALSE),
         Atom("end", 0, 0, FALSE)>> >>

\* the sentinel 'No agent' of apply_agent_regex
NoAgent == <<"N", "o", " ", "a", "g", "e", "n", "t">>

\* the reserved service label, as a span prefix and as an agent name
KlantenservicePrefix == <<"K", "l", "a", "n", "t", "e", "n", "s", "e", "r", "v", "i", "c", "e", ":", " ">>

Klantenservice == <<"K", "l", "a", "n", "t", "e", "n", "s", "e", "r", "v", "i", "c", "e">>

(***************************************************************************)
(* The extraction methods.                                                 *)
(***************************************************************************)
\* found[0], 'No agent' on IndexError
FirstOrNoAgent(found) == IF found = <<>> THEN NoAgent ELSE found[1]

\* lines 45-50: re.findall(self.regex_agent_name, chatlog)[0]
apply_agent_regex(chatlog) ==
    FirstOrNoAgent(Groups(chatlog, FindAll(<<regex_agent_name>>, chatlog, 1),
                          1, 7, 7))

\* lines 57, 126: re.findall(self.regex_client_name, sentence), the list
client_names(sentence) ==
    Groups(sentence, FindAll(<<regex_client_name>>, sentence, 1), 1, 1, 3)

\* line 67: re.findall(self.regex_timestamps, chatlog), the whole matches
apply_timestamp_regex(chatlog) ==
    Groups(chatlog, FindAll(<<regex_timestamps>>, chatlog, 1), 1, 1, 12)

\* one record <<group 1, group 2>> per match
Records(s, found) ==
    [n \in 1..Len(found) |->
        <<Group(s, found[n], 1, 9, 9), Group(s, found[n], 2, 4, 4)>>]

\* line 74: re.findall(self.regex_with_last_response, chatlog)
apply_chat_sentence_regex(chatlog) ==
    Records(chatlog, FindAll(regex_with_last_response, chatlog, 1))

(***************************************************************************)
(* str and dict operations used by acquire_dialogue.                       *)
(***************************************************************************)
\* does sub occur in s at position pos
OccursAt(s, sub, pos) ==
    /\ pos + Len(sub) - 1 <= Len(s)
    /\ \A i \in 1..Len(sub) : s[pos + i - 1] = sub[i]

\* sub in s
Contains(s, sub) == \E pos \in 1..(Len(s) + 1) : OccursAt(s, sub, pos)

\* s.replace(old, '') from pos on; old is never empty here
RECURSIVE Remove(_, _, _)
RECURSIVE RemoveAt(_, _, _, _)
Remove(s, old, pos) ==
    RemoveAt(s, old, pos, {p \in pos..Len(s) : OccursAt(s, old, p)})

\* at is the positions from pos on where old occurs
RemoveAt(s, old, pos, at) ==
    IF at = {} THEN SubSeq(s, pos, Len(s))
    ELSE SubSeq(s, pos, Least(at) - 1)
         \o Remove(s, old, Least(at) + Len(old))

\* f"{name}: "
WithColon(name) == name \o <<":", " ">>

DictKeys(d) == [i \in 1..Len(d) |-> d[i][1]]

DictHas(d, k) == \E i \in 1..Len(d) : d[i][1] = k

DictGet(d, k) == d[CHOOSE i \in 1..Len(d) : d[i][1] = k][2]

\* d[k] = v : a new key goes last, an old key keeps its place
DictSet(d, k, v) ==
    IF DictHas(d, k)
    THEN [i \in 1..Len(d) |-> IF d[i][1] = k THEN <<k, v>> ELSE d[i]]
    ELSE Append(d, <<k, v>>)

(***************************************************************************)
(* acquire_dialogue: the body of the loop over the chatlogs.               *)
(***************************************************************************)
\* lines 109-115: the slot selection.  Both tests are plain ifs: a record
\* whose two slots are '' is appended twice.
SelectSlot(sentence) ==
    (IF sentence[1] = <<>> THEN <<sentence[2]>> ELSE <<>>)
    \o (IF sentence[2] = <<>> THEN <<sentence[1]>> ELSE <<>>)

RECURSIVE SelectSlots(_, _)
SelectSlots(chat_sentences, i) ==
    IF i > Len(chat_sentences) THEN <<>>
    ELSE SelectSlot(chat_sentences[i]) \o SelectSlots(chat_sentences, i + 1)

\* zip(sentences, time_stamps): the number of pairs
ZipLen(sentences, time_stamps) == Min(Len(sentences), Len(time_stamps))

\* lines 126-132: the agent name after the alias test of one span
ResolveAlias(agent_name, client_name) ==
    IF client_name = KlantenservicePrefix THEN Klantenservice ELSE agent_name

\* line 134: is the span the agent's
IsAgentSentence(agent_name, sentence) ==
    Contains(sentence, WithColon(agent_name))

\* Turn with the pairs counted from 1, as enumerate(..., 1) would
TurnFromOne(sentence_index, sentence, prefix, timestamp) ==
    <<sentence_index + 1, Remove(sentence, prefix, 1), timestamp>>

\* lines 135 and 138: the turn (sentence_index, stripped text, timestamp)
Turn(sentence_index, sentence, prefix, timestamp) ==
    <<sentence_index, Remove(sentence, prefix, 1), timestamp>>

\* Attribute that keeps the first client label of the call instead of the
\* last
AttributeFirstLabel(l, sentence_index, sentence, timestamp, client_name, agent_name) ==
    IF IsAgentSentence(agent_name, sentence)
    THEN [l EXCEPT
            !.agent_name = agent_name,
            !.agent_sentences =
               Append(@, Turn(sentence_index, sentence,
                              WithColon(agent_name), timestamp))]
    ELSE [l EXCEPT
            !.agent_name = agent_name,
            !.client_sentences =
               Append(@, Turn(sentence_index, sentence, client_name,
                              timestamp)),
            !.actual_client_name =
               IF @ = <<>> THEN <<client_name>> ELSE @]

\* lines 134-139: the pair is attributed, given the prefix found by line
\* 126 and the agent name after line 132.  l is the locals [agent_name,
\* agent_sentences, client_sentences, actual_client_name, exc];
\* actual_client_name is <<>> while unbound and <<name>> once assigned.
Attribute(l, sentence_index, sentence, timestamp, client_name, agent_name) ==
    IF IsAgentSentence(agent_name, sentence)
    THEN [l EXCEPT
            !.agent_name = agent_name,
            !.agent_sentences =
               Append(@, Turn(sentence_index, sentence,
                              WithColon(agent_name), timestamp))]
    ELSE [l EXCEPT
            !.agent_name = agent_name,
            !.client_sentences =
               Append(@, Turn(sentence_index, sentence, client_name,
                              timestamp)),
            !.actual_client_name = <<client_name>>]

\* ZipStepNamed that passes over a span without a prefix instead of raising
ZipStepSkipUnnamed(l, sentence_index, sentence, timestamp, names) ==
    IF names = <<>> THEN l
    ELSE Attribute(l, sentence_index, sentence, timestamp, names[1],
                   ResolveAlias(l.agent_name, names[1]))

\* lines 126-139, names being re.findall(self.regex_client_name, sentence):
\* names[0] raises IndexError when the list is empty
ZipStepNamed(l, sentence_index, sentence, timestamp, names) ==
    IF names = <<>> THEN [l EXCEPT !.exc = "IndexError"]
    ELSE Attribute(l, sentence_index, sentence, timestamp, names[1],
                   ResolveAlias(l.agent_name, names[1]))

\* lines 124-139: the body of the loop over the pairs
ZipStep(l, sentence_index, sentence, timestamp) ==
    ZipStepNamed(l, sentence_index, sentence, timestamp,
                 client_names(sentence))

\* line 123: the loop over zip(sentences, time_stamps) from pair i (1-based)
\* on; an exception ends it.
RECURSIVE ZipLoop(_, _, _, _)
ZipLoop(sentences, time_stamps, i, l) ==
    IF i > ZipLen(sentences, time_stamps) \/ l.exc # "none" THEN l
    ELSE ZipLoop(sentences, time_stamps, i + 1,
                 ZipStep(l, i - 1, sentences[i], time_stamps[i]))

\* SentenceDict with the two assignments in the other order
SentenceDictClientFirst(l) ==
    DictSet(DictSet(<<>>, l.actual_client_name[1], l.client_sentences),
            l.agent_name, l.agent_sentences)

\* lines 141-143: sentence_dict, given the locals after the loop
SentenceDict(l) ==
    DictSet(DictSet(<<>>, l.agent_name, l.agent_sentences),
            l.actual_client_name[1], l.client_sentences)

\* lines 141-147, l being the locals after the loop of line 123:
\*   kind "raise" : exc is the exception that leaves acquire_dialogue
\*                  (line 143 reads actual_client_name: UnboundLocalError
\*                  when no iteration of this call has assigned it)
\*   kind "built" : sentence_dict is stored; actual_client_name as it is now
Outcome(l) ==
    IF l.exc # "none"
    THEN [kind |-> "raise", exc |-> l.exc, sentence_dict |-> <<>>,
          actual_client_name |-> l.actual_client_name]
    ELSE IF l.actual_client_name = <<>>
    THEN [kind |-> "raise", exc |-> "UnboundLocalError",
          sentence_dict |-> <<>>,
          actual_client_name |-> l.actual_client_name]
    ELSE [kind |-> "built", exc |-> "none",
          sentence_dict |-> SentenceDict(l),
          actual_client_name |-> l.actual_client_name]

\* AcquireWithAgent without the test of line 95: a transcript without an
\* agent goes on to be segmented and built
AcquireWithAgentNoSkip(chatlog, actual_client_name, agent_name) ==
    Outcome(ZipLoop(SelectSlots(apply_chat_sentence_regex(chatlog), 1),
                    apply_timestamp_regex(chatlog), 1,
                    [agent_name |-> agent_name,
                     agent_sentences |-> <<>>,
                     client_sentences |-> <<>>,
                     actual_client_name |-> actual_client_name,
                     exc |-> "none"]))

\* lines 95-147, agent_name being the result of line 92;
\*   kind "skip" : no agent (line 97)
AcquireWithAgent(chatlog, actual_client_name, agent_name) ==
    IF agent_name = NoAgent
    THEN [kind |-> "skip", exc |-> "none", sentence_dict |-> <<>>,
          actual_client_name |-> actual_client_name]
    ELSE Outcome(ZipLoop(SelectSlots(apply_chat_sentence_regex(chatlog), 1),
                         apply_timestamp_regex(chatlog), 1,
                         [agent_name |-> agent_name,
                          agent_sentences |-> <<>>,
                          client_sentences |-> <<>>,
                          actual_client_name |-> actual_client_name,
                          exc |-> "none"]))

\* lines 90-147: one iteration for chatlog, entered with the function's
\* local actual_client_name as the earlier iterations left it.
AcquireOne(chatlog, actual_client_name) ==
    AcquireWithAgent(chatlog, actual_client_name, apply_agent_regex(chatlog))

(***************************************************************************)
(* find_chatlogs_without_client and return_chatlogs.                       *)
(***************************************************************************)
\* lines 158-163: the loop over chat_dict.items() from item i on; r is
\* [client_error_logs, exc].  CSM, KLT = dialogue.keys() raises ValueError
\* unless the dialogue has two keys.
FindStep(r, key, dialogue) ==
    IF Len(dialogue) # 2 THEN [r EXCEPT !.exc = "ValueError"]
    ELSE IF Len(DictGet(dialogue, DictKeys(dialogue)[2])) = 0
    THEN [r EXCEPT !.client_error_logs = Append(@, key)]
    ELSE r

RECURSIVE FindLoop(_, _, _)
FindLoop(dict, i, r) ==
    IF i > Len(dict) \/ r.exc # "none" THEN r
    ELSE FindLoop(dict, i + 1, FindStep(r, dict[i][1], dict[i][2]))

\* k in client_errors
InList(list, k) == \E i \in 1..Len(list) : list[i] = k

\* line 175: {k: v for k, v in self.chat_dict.items() if k not in client_errors}
RECURSIVE FinalChatlogs(_, _, _)
FinalChatlogs(dict, client_errors, i) ==
    IF i > Len(dict) THEN <<>>
    ELSE (IF InList(client_errors, dict[i][1]) THEN <<>> ELSE <<dict[i]>>)
         \o FinalChatlogs(dict, client_errors, i + 1)

(***************************************************************************)
(* The inputs: lists of transcripts of at most MaxSize in all, a           *)
(* transcript counting for one plus its number of segments.  A transcript  *)
(* is a header followed by segments; a segment is a timestamp marker and   *)
(* the text after it.                                                      *)
(***************************************************************************)
MaxSize == 3

MaxCalls == 2

\* "Agent Jo "
AgentHeader == <<"A", "g", "e", "n", "t", " ", "J", "o", " ">>

\* "Chat ( 1s ) Kl: b " : a transcript without "Agent <name>"
NoAgentChatlog == <<"C", "h", "a", "t", " ", "(", " ", "1", "s", " ", ")", " ", "K", "l", ":", " ", "b", " ">>

\* "( 1s ) Jo: a " : a turn of the agent under the extracted name
SegAgent == <<"(", " ", "1", "s", " ", ")", " ", "J", "o", ":", " ", "a", " ">>

\* "( 1s ) Kl: b " : a turn of the client
SegClient == <<"(", " ", "1", "s", " ", ")", " ", "K", "l", ":", " ", "b", " ">>

\* "( 2m 3s ) Klantenservice: c " : a turn of the agent under the reserved
\* label, after a marker with minutes
SegService == <<"(", " ", "2", "m", " ", "3", "s", " ", ")", " ", "K", "l", "a", "n", "t", "e", "n", "s", "e", "r", "v", "i", "c", "e", ":", " ", "c", " ">>

\* "( 1s ) " : a marker followed by no text
SegEmpty == <<"(", " ", "1", "s", " ", ")", " ">>

\* "( 1s ) oops " : a text without a "name: " prefix
SegNoPrefix == <<"(", " ", "1", "s", " ", ")", " ", "o", "o", "p", "s", " ">>

\* "( 1s ) Pi: d " : a turn under a second client label
SegOther == <<"(", " ", "1", "s", " ", ")", " ", "P", "i", ":", " ", "d", " ">>

\* "(1s ) Kl: e " : a turn of the client after a marker that opens without
\* a blank
SegLoose == <<"(", "1", "s", " ", ")", " ", "K", "l", ":", " ", "e", " ">>

\* "( 1s )" : a marker that nothing follows, not even a blank
SegBare == <<"(", " ", "1", "s", " ", ")">>

Segments ==
    {SegAgent, SegClient, SegService, SegEmpty, SegNoPrefix, SegOther,
     SegLoose, SegBare}

\* the sequences of at most n segments
SegSeqs(n) == UNION {[1..k -> Segments] : k \in 0..n}

RECURSIVE Flatten(_)
Flatten(segs) ==
    IF segs = <<>> THEN <<>> ELSE Head(segs) \o Flatten(Tail(segs))

\* the lists of transcripts of at most size in all
RECURSIVE ListsOf(_)
ListsOf(size) ==
    IF size = 0 THEN {<<>>}
    ELSE {<<>>}
         \cup UNION {
                {<<AgentHeader \o Flatten(segs)>> \o rest :
                    rest \in ListsOf(size - 1 - Len(segs))} :
                segs \in SegSeqs(size - 1)}
         \cup {<<NoAgentChatlog>> \o rest : rest \in ListsOf(size - 1)}

Inputs == ListsOf(MaxSize)

(***************************************************************************)
(* The state: the fields of a ProcessChatlogs object, the position of the  *)
(* caller in return_chatlogs, and what the caller has seen returned.       *)
(***************************************************************************)
VARIABLES
    chatlogs,            \* the field chatlogs
    chat_dict,           \* the field chat_dict
    agent_error_logs,    \* the field agent_error_logs
    client_error_logs,   \* the field client_error_logs
    pc,                  \* "idle", "acquire", "filter" or "raised"
    chat_index,          \* acquire_dialogue's loop variable
    actual_client_name,  \* acquire_dialogue's local: <<>> while unbound
    exc,                 \* the exception that left return_chatlogs
    calls,               \* the calls of return_chatlogs so far
    observed             \* per returned call: the Corpus returned and the
                         \* two error logs as they were then

vars ==
    <<chatlogs, chat_dict, agent_error_logs, client_error_logs, pc,
      chat_index, actual_client_name, exc, calls, observed>>

\* lines 16-19 and 188: the object as constructed
Init ==
    /\ chatlogs \in Inputs
    /\ chat_dict = <<>>
    /\ agent_error_logs = <<>>
    /\ client_error_logs = <<>>
    /\ pc = "idle"
    /\ chat_index = 0
    /\ actual_client_name = <<>>
    /\ exc = "none"
    /\ calls = 0
    /\ observed = <<>>

\* lines 167-173 and 156: return_chatlogs is called and enters
\* acquire_dialogue, whose locals are fresh.  A call that raised is not
\* followed by another: the exception leaves return_chatlogs to the caller.
Call ==
    /\ pc = "idle"
    /\ calls < MaxCalls
    /\ pc' = "acquire"
    /\ calls' = calls + 1
    /\ chat_index' = 0
    /\ actual_client_name' = <<>>
    /\ UNCHANGED <<chatlogs, chat_dict, agent_error_logs, client_error_logs,
                   exc, observed>>

\* lines 96, 147 and the raise: what an iteration with outcome r does to
\* the object and to the loop
AcquireEffect(chatlog, r) ==
    /\ agent_error_logs' =
          IF r.kind = "skip" THEN Append(agent_error_logs, chatlog)
          ELSE agent_error_logs
    /\ chat_dict' =
          IF r.kind = "built"
          THEN DictSet(chat_dict, chat_index, r.sentence_dict)
          ELSE chat_dict
    /\ actual_client_name' = r.actual_client_name
    /\ exc' = r.exc
    /\ pc' = IF r.kind = "raise" THEN "raised" ELSE "acquire"
    /\ chat_index' = IF r.kind = "raise" THEN chat_index ELSE chat_index + 1

\* lines 89-147: one iteration of acquire_dialogue's loop
AcquireIteration ==
    /\ pc = "acquire"
    /\ chat_index < Len(chatlogs)
    /\ AcquireEffect(chatlogs[chat_index + 1],
                     AcquireOne(chatlogs[chat_index + 1], actual_client_name))
    /\ UNCHANGED <<chatlogs, client_error_logs, calls, observed>>

\* what the loop of lines 158-163, ending as r, leaves
FindEffect(r) ==
    /\ client_error_logs' = r.client_error_logs
    /\ exc' = r.exc
    /\ pc' = IF r.exc = "none" THEN "filter" ELSE "raised"

\* lines 149 and 156-165: acquire_dialogue returns chat_dict and
\* find_chatlogs_without_client loops over it
FindChatlogsWithoutClient ==
    /\ pc = "acquire"
    /\ chat_index = Len(chatlogs)
    /\ FindEffect(FindLoop(chat_dict, 1,
                           [client_error_logs |-> client_error_logs,
                            exc |-> "none"]))
    /\ UNCHANGED <<chatlogs, chat_dict, agent_error_logs, chat_index,
                   actual_client_name, calls, observed>>

\* lines 175-177: the filtered dictionary is returned
ReturnChatlogs ==
    /\ pc = "filter"
    /\ observed' =
          Append(observed,
                 [final_chatlogs |->
                      FinalChatlogs(chat_dict, client_error_logs, 1),
                  agent_error_logs |-> agent_error_logs,
                  client_error_logs |-> client_error_logs])
    /\ pc' = "idle"
    /\ UNCHANGED <<chatlogs, chat_dict, agent_error_logs, client_error_logs,
                   chat_index, actual_client_name, exc, calls>>

Next ==
    \/ Call
    \/ AcquireIteration
    \/ FindChatlogsWithoutClient
    \/ ReturnChatlogs

Spec == Init /\ [][Next]_vars

(***************************************************************************)
(* What the source makes of one transcript, for the properties below.      *)
(***************************************************************************)
\* the values chat_index takes over chatlogs
Indices == 0..(Len(chatlogs) - 1)

\* the transcript with index k
Chatlog(k) == chatlogs[k + 1]

\* lines 92-95: the transcript passes the agent test
HasAgent(chatlog) == apply_agent_regex(chatlog) # NoAgent

\* lines 92-126: what an iteration reads off chatlog: the agent name, the
\* timestamp tokens, the span records, the list sentences, the number of
\* pairs of the loop and, per pair, the result of apply_client_regex
Reading(chatlog) ==
    LET tokens == apply_timestamp_regex(chatlog)
        records == apply_chat_sentence_regex(chatlog)
        sentences == SelectSlots(records, 1)
    IN  [agent |-> apply_agent_regex(chatlog),
         tokens |-> tokens,
         records |-> records,
         sentences |-> sentences,
         pairs |-> ZipLen(sentences, tokens),
         names |-> [i \in 1..ZipLen(sentences, tokens) |->
                       client_names(sentences[i])]]

\* the text of a span record: its populated slot
SpanText(record) == IF record[1] # <<>> THEN record[1] ELSE record[2]

\* line 126 raises on some pair of the reading f
Malformed(f) == \E i \in 1..f.pairs : f.names[i] = <<>>

\* line 126: the prefix of pair i
Prefix(f, i) == f.names[i][1]

\* line 126 gives pair i the prefix name
HasPrefix(f, i, name) == f.names[i] # <<>> /\ f.names[i][1] = name

\* lines 131-132: agent_name while pair i is attributed: the reserved label
\* once a pair up to i had it as prefix
AgentNameAt(f, i) ==
    IF \E j \in 1..i : HasPrefix(f, j, KlantenservicePrefix)
    THEN Klantenservice
    ELSE f.agent

\* lines 134-139: the pairs attributed to the client
ClientPairs(f) ==
    {i \in 1..f.pairs :
        ~IsAgentSentence(AgentNameAt(f, i), f.sentences[i])}

\* the iteration of the running or last call for index k went through
\* without raising, or an earlier call returned
Done(k) == k < chat_index \/ observed # <<>>

\* the iteration for index k of the running call raised
RaisedAt(k) == pc = "raised" /\ chat_index = k

\* the dictionaries of a dict of dictionaries, with their keys
Entries(dict) == {<<dict[n][1], dict[n][2]>> : n \in 1..Len(dict)}

\* every <<index, DialogueMap>> of chat_dict or of a returned Corpus
AllEntries ==
    Entries(chat_dict)
    \cup UNION {Entries(observed[n].final_chatlogs) : n \in 1..Len(observed)}

\* the greatest element of a set of numbers
Greatest(S) == CHOOSE x \in S : \A y \in S : x >= y

\* the elements of a list
Elems(list) == {list[n] : n \in 1..Len(list)}

(***************************************************************************)
(* The properties.                                                         *)
(***************************************************************************)
\* C1: once return_chatlogs has returned twice, the second call returned the
\* same Corpus as the first and left agent_error_logs and client_error_logs
\* with the contents they had after the first.
C1_Idempotent ==
    Len(observed) >= 2 =>
        /\ observed[2].final_chatlogs = observed[1].final_chatlogs
        /\ observed[2].agent_error_logs = observed[1].agent_error_logs
        /\ observed[2].client_error_logs = observed[1].client_error_logs

\* C2: a transcript without an "Agent <name>" match that the loop has gone
\* through is an element of agent_error_logs, and neither chat_dict nor any
\* returned Corpus has an entry for its index.
C2_NoAgentDiverted ==
    \A k \in Indices :
        (Done(k) /\ ~HasAgent(Chatlog(k))) =>
            /\ Chatlog(k) \in Elems(agent_error_logs)
            /\ \A e \in AllEntries : e[1] # k

\* C2 happens: a call has returned over a list that holds a transcript
\* without an agent and a transcript that was built.
C2_Witness ==
    /\ pc = "idle"
    /\ observed # <<>>
    /\ chat_dict # <<>>
    /\ \E k \in Indices : ~HasAgent(Chatlog(k))

\* the reading f is of a transcript with an agent whose pairs all have a
\* prefix and are all the agent's, or that has no pair
NoClientTurn(f) ==
    /\ f.agent # NoAgent
    /\ ~Malformed(f)
    /\ ClientPairs(f) = {}

\* C3: a transcript that has an agent and whose client turn list is empty
\* after building does not make return_chatlogs raise, wherever it stands;
\* once the call has returned, its index is in client_error_logs and the
\* returned Corpus has no entry for it.
C3_ClientMissingLogged ==
    \A k \in Indices :
        NoClientTurn(Reading(Chatlog(k))) =>
            /\ ~RaisedAt(k)
            /\ (pc = "idle" /\ observed # <<>>) =>
                  /\ k \in Elems(client_error_logs)
                  /\ \A e \in Entries(observed[Len(observed)].final_chatlogs) :
                        e[1] # k

\* the DialogueMap dialogue of a transcript read as f is keyed by the final
\* agent name, then by a client label that differs from it; when the
\* transcript has a client turn the label is the prefix of the last pair
\* attributed to the client
WellKeyed(f, dialogue) ==
    /\ Len(dialogue) = 2
    /\ dialogue[1][1] # dialogue[2][1]
    /\ dialogue[1][1] = AgentNameAt(f, f.pairs)
    /\ dialogue[2][2] # <<>> =>
          dialogue[2][1] = Prefix(f, Greatest(ClientPairs(f)))

TurnsOf(dialogue) ==
    {<<n, dialogue[n][2][m]>> : n \in {1}, m \in 1..Len(dialogue[1][2])}
    \cup {<<n, dialogue[n][2][m]>> : n \in {2}, m \in 1..Len(dialogue[2][2])}

\* the text a turn of list n (1 agent, 2 client) keeps of span i
Stripped(f, n, i) ==
    Remove(SpanText(f.records[i]),
           IF n = 1 THEN WithColon(AgentNameAt(f, i)) ELSE Prefix(f, i),
           1)

\* dialogue holds one turn per pair of the first Min(N, M) spans and tokens
\* of the reading f, and turn i is made of span i and token i
Paired(f, dialogue) ==
    /\ Len(dialogue[1][2]) + Len(dialogue[2][2])
          = Min(Len(f.tokens), Len(f.records))
    /\ \A i \in 1..Min(Len(f.tokens), Len(f.records)) :
          \E t \in TurnsOf(dialogue) :
             /\ t[2][1] = i - 1
             /\ t[2][2] = Stripped(f, t[1], i)
             /\ t[2][3] = f.tokens[i]

\* C5: a built DialogueMap holds exactly min(N, M) turns over its two lists,
\* N the number of timestamp tokens and M the number of span records of the
\* transcript, and the turn with ordinal index i carries the text of span i
\* and the token i.
C5_PairedByPosition ==
    \A e \in Entries(chat_dict) :
        Len(e[2]) = 2 /\ Paired(Reading(Chatlog(e[1])), e[2])

\* C5 happens: a DialogueMap with a turn was built from a transcript whose
\* numbers of tokens and of spans differ, so one of the two was truncated.
C5_Witness ==
    \E e \in Entries(chat_dict) :
        /\ Len(e[2][1][2]) + Len(e[2][2][2]) >= 1
        /\ Len(apply_timestamp_regex(Chatlog(e[1])))
              # Len(apply_chat_sentence_regex(Chatlog(e[1])))

\* the pairs of the reading f whose prefix is the extracted agent name's or
\* the reserved label
AgentPrefixed(f) ==
    {i \in 1..f.pairs :
        \/ HasPrefix(f, i, WithColon(f.agent))
        \/ HasPrefix(f, i, KlantenservicePrefix)}

\* the turns of dialogue's agent list are exactly the pairs of f under
\* either prefix of the agent, when f has pairs under both
OneBucket(f, dialogue) ==
    (/\ \E i \in AgentPrefixed(f) : Prefix(f, i) = KlantenservicePrefix
     /\ \E i \in AgentPrefixed(f) : Prefix(f, i) # KlantenservicePrefix) =>
        \A i \in AgentPrefixed(f) :
           /\ \E m \in 1..Len(dialogue[1][2]) : dialogue[1][2][m][1] = i - 1
           /\ \A m \in 1..Len(dialogue[2][2]) : dialogue[2][2][m][1] # i - 1

\* C6: in a built transcript whose pairs carry both the prefix "<name>: " of
\* the extracted agent and the reserved prefix "Klantenservice: ", every
\* such pair is a turn of the agent's list and none is a turn of the
\* client's list.
C6_OneAgentBucket ==
    \A e \in Entries(chat_dict) :
        Len(e[2]) = 2 /\ OneBucket(Reading(Chatlog(e[1])), e[2])

\* C7: a transcript with an agent one of whose paired spans has no "name: "
\* prefix makes the call raise IndexError in its iteration: the loop never
\* gets past it and chat_dict never has an entry for it.
C7_MalformedRaises ==
    \A k \in Indices :
        (\/ Done(k)
         \/ \E e \in AllEntries : e[1] = k
         \/ RaisedAt(k) /\ exc # "IndexError") =>
            (HasAgent(Chatlog(k)) => ~Malformed(Reading(Chatlog(k))))

\* C7 happens: the call raised IndexError on a transcript with a paired
\* span that has a text and no prefix.
C7_Witness ==
    /\ pc = "raised"
    /\ exc = "IndexError"
    /\ \E i \in 1..Reading(Chatlog(chat_index)).pairs :
          /\ Reading(Chatlog(chat_index)).sentences[i] # <<>>
          /\ Reading(Chatlog(chat_index)).names[i] = <<>>

\* every record of f has exactly one slot that is not '', and sentences has
\* one sentence per record
OneSlotPerRecord(f) ==
    /\ \A n \in 1..Len(f.records) :
          (f.records[n][1] = <<>>) # (f.records[n][2] = <<>>)
    /\ Len(f.sentences) = Len(f.records)

\* C8: the records of a transcript that has been segmented have exactly one
\* slot that is not '', and the list sentences has one sentence per record.
C8_OneSlotPerRecord ==
    \A k \in Indices :
        ((Done(k) \/ RaisedAt(k)) /\ HasAgent(Chatlog(k))) =>
            OneSlotPerRecord(Reading(Chatlog(k)))

\* the ordinal indices of a turn list, in the order of the list
Ordinals(turns) == [m \in 1..Len(turns) |-> turns[m][1]]

\* when f has a pair attributed to the client, the client key of dialogue
\* is the prefix of the last such pair and its list has one turn per such
\* pair, in increasing order
LastLabel(f, dialogue) ==
    ClientPairs(f) # {} =>
        /\ dialogue[2][1] = Prefix(f, Greatest(ClientPairs(f)))
        /\ Elems(Ordinals(dialogue[2][2])) = {i - 1 : i \in ClientPairs(f)}
        /\ \A m \in 1..(Len(dialogue[2][2]) - 1) :
              dialogue[2][2][m][1] < dialogue[2][2][m + 1][1]

\* C9: in a built transcript with a pair attributed to the client, the
\* client key is the prefix of the last such pair, and the list under it
\* holds one turn per such pair, in increasing ordinal order.
C9_LastLabelWins ==
    \A e \in Entries(chat_dict) :
        Len(e[2]) = 2 /\ LastLabel(Reading(Chatlog(e[1])), e[2])

\* C9 happens: a DialogueMap was built from a transcript with two client
\* turns whose spans have different prefixes.
C9_Witness ==
    \E e \in Entries(chat_dict) :
        \E i, j \in ClientPairs(Reading(Chatlog(e[1]))) :
            /\ i < j
            /\ Prefix(Reading(Chatlog(e[1])), i)
                  # Prefix(Reading(Chatlog(e[1])), j)

\* the iteration for index k ended as r, the outcome of an iteration
SameOutcome(k, r) ==
    /\ (r.kind = "raise") = RaisedAt(k)
    /\ r.kind = "built" => <<k, r.sentence_dict>> \in Entries(chat_dict)

\* C10: what an iteration of the running call made of a transcript (built
\* and which DialogueMap, or raised) is what acquire_dialogue makes of the
\* transcript when it is the only one of the list.
C10_Independent ==
    \A k \in Indices :
        ((calls > 0 /\ k < chat_index) \/ RaisedAt(k)) =>
            SameOutcome(k, AcquireOne(Chatlog(k), <<>>))

====
